---- MODULE Spec2Model ----
(***************************************************************************)
(* The vector-store lifecycle of EstateSearchAI: the two backend stores    *)
(* (ChromaPropertyStore, FAISSPropertyStore), the persistence directory    *)
(* they write, and the operations load_properties / clear / search /       *)
(* needs_loading, with process restarts that construct a new instance on   *)
(* the same directory.                                                     *)
(*                                                                         *)
(* Library calls are modelled by what they do to the located database:     *)
(*  - chromadb.PersistentClient(path) opens or creates the database under  *)
(*    path (the file chroma.sqlite3 exists afterwards) and sees the        *)
(*    collection persisted there;                                          *)
(*  - chromadb.Client() opens the in-memory database of the process: every *)
(*    ephemeral client of one process shares it;                           *)
(*  - Chroma.add_texts(ids=...) upserts by document id;                    *)
(*  - FAISS.from_documents([]) raises; FAISS.save_local writes index.faiss *)
(*    and then the pickled side table;                                     *)
(*  - any backend call may raise (fault inputs of the actions).            *)
(*                                                                         *)
(* Specifications:                                                         *)
(*  - Spec      the store operations in any order, with restarts;          *)
(*  - PureSpec  the metadata codec and the FAISS score conversion applied  *)
(*              to bounded inputs;                                         *)
(*  - DimSpec   the store operations across processes whose embedding      *)
(*              models differ in output dimension;                         *)
(*  - BootSpec  app.py: one bootstrap per process, then searches;          *)
(*  - ConcSpec  two callers interleaving search on a loaded store.         *)
(***************************************************************************)
EXTENDS Integers, Sequences, FiniteSets, TLC

\* ---------------------------------------------------------------- bounds
MaxId == 2      \* listing ids are 1..MaxId
MaxK == 2       \* top_k handed to search ranges over 0..MaxK

\* ------------------------------------------------------------ data model
Ids == 1..MaxId

\* property_name stands for the required text fields of Property. The feed
\* parser emits "" for a missing element: the listing with id 1 is such a
\* listing, the others carry a name.
NameOf(i) == IF i = 1 THEN "" ELSE "villa"

Property == {[id |-> i, property_name |-> NameOf(i)] : i \in Ids}

RECURSIVE SeqsUpTo(_, _)
SeqsUpTo(S, n) ==
    IF n = 0 THEN {<<>>}
    ELSE LET shorter == SeqsUpTo(S, n - 1)
         IN  shorter \cup {Append(s, x) : s \in {t \in shorter : Len(t) = n - 1}, x \in S}

Range(s) == {s[i] : i \in 1..Len(s)}

DistinctIds(s) == \A i, j \in 1..Len(s) : i # j => s[i].id # s[j].id

\* The lists a caller hands to load_properties: listing ids are unique in
\* one working set.
PropertyLists == {s \in SeqsUpTo(Property, MaxId) : DistinctIds(s)}

Storage == {"memory", "disk"}
Backends == {"chroma", "faiss"}

VARIABLES
    backend,        \* config.vector_store_type
    storage_mode,   \* config.storage_mode
    fs,             \* the persistence directory
    memColl,        \* the in-memory chroma collection of the running process
    constructed,    \* a store instance exists in the running process
    vector_store,   \* self.vector_store
    properties,     \* self.properties (the id -> Property map, as a set)
    ret,            \* the last call and what it returned
    prev,           \* the call before it
    everLoaded,     \* load_properties has been called on the store
    clearedSince,   \* the caller's clear() returned and no load has succeeded since
    boot,           \* the arguments and the course of the last bootstrap
    dims,           \* embedding dimensionality: of the model, of the persisted index
    fin,            \* the argument of the last application of a pure function
    fout,           \* what it returned
    threads         \* the search calls in flight, one per caller

\* The variables the store operations below neither read nor write.
aux == <<boot, dims, fin, fout, threads>>

vars == <<backend, storage_mode, fs, memColl, constructed, vector_store,
          properties, ret, prev, everLoaded, clearedSince, aux>>

\* ------------------------------------------------------------ filesystem
EmptyFs ==
    [dir |-> FALSE,        \* config.chroma_persist_dir exists
     chromaDir |-> FALSE,  \* <dir>/.chroma exists
     sqlite |-> FALSE,     \* <dir>/.chroma/chroma.sqlite3 exists
     coll |-> <<>>,        \* documents of the persisted chroma collection, by id "0", "1", ...
     indexFile |-> FALSE,  \* <dir>/index.faiss exists
     storeFile |-> FALSE,  \* <dir>/store.pkl exists
     faissDocs |-> <<>>]   \* documents of the persisted flat index

\* Mutant of RmtreeAll: the directory is removed when it exists and created
\* only when it does not.
RmtreeAll_RemoveOrCreate == [EmptyFs EXCEPT !.dir = ~fs.dir]

\* shutil.rmtree(persist_directory) followed by os.makedirs(persist_directory)
RmtreeAll == [EmptyFs EXCEPT !.dir = TRUE]

NoStore == [open |-> FALSE, docs |-> <<>>]

\* The values of the variables a specification does not use.
NoBoot == [cmd |-> "none", env |-> "unset", force |-> FALSE, db |-> FALSE]
NoDims == [model |-> 0, index |-> 0]
NoFn == [fn |-> "none"]
NoThreads == <<>>

NoRet == [op |-> "init", raised |-> FALSE, arg |-> <<>>, k |-> 0,
          matches |-> <<>>, flag |-> FALSE]

\* What the next call remembers of the call before it.
Tag(r) ==
    IF r.op = "load" THEN (IF r.raised THEN "load_failed" ELSE "load_ok")
    ELSE IF r.op = "clear" /\ ~r.raised THEN "clear_ok"
    ELSE "other"

\* dict assignment self.properties[prop.id] = prop
Put(props, p) == {q \in props : q.id # p.id} \cup {p}

RECURSIVE PutAll(_, _)
PutAll(props, s) ==
    IF s = <<>> THEN props ELSE PutAll(Put(props, Head(s)), Tail(s))


Min(a, b) == IF a < b THEN a ELSE b

\* ------------------------------------------------------- backend queries
\* Mutant of Rankings: the backend ignores k and returns every document.
Rankings_IgnoreK(n, k) ==
    {r \in SeqsUpTo(1..n, n) :
        /\ Len(r) = n
        /\ \A i, j \in 1..Len(r) : i # j => r[i] # r[j]}

\* similarity_search_with_score(query, k) / similarity_search_with_relevance_scores(query, k):
\* the k nearest documents of the index, nearest first, or all of them when
\* the index holds fewer. The query and the embedding decide the order, so a
\* query is any ranking: a sequence of distinct document positions.
Rankings(n, k) ==
    {r \in SeqsUpTo(1..n, Min(k, n)) :
        /\ Len(r) = Min(k, n)
        /\ \A i, j \in 1..Len(r) : i # j => r[i] # r[j]}

Results(docs, r) == [i \in 1..Len(r) |-> docs[r[i]]]

\* Property(**property_data) in ChromaPropertyStore.search: _process_metadata
\* stores "" for an empty string, the decoding loop turns "" into None, and
\* the model rejects None for a required str field.
ValidProperty(doc) == doc.property_name # ""

\* ------------------------------------------------ ChromaPropertyStore
\* The collection "properties" the store's client sees.
Coll == IF storage_mode = "disk" THEN fs.coll ELSE memColl

\* Mutant of InitializedFs: DISK mode opens the in-memory client too, so no
\* database file is written.
InitializedFs_NoDatabase(f) ==
    IF storage_mode = "disk"
    THEN [f EXCEPT !.dir = TRUE, !.chromaDir = TRUE]
    ELSE f

\* _initialize_store: os.makedirs(.chroma) and chromadb.PersistentClient in
\* DISK mode, chromadb.Client() otherwise.
InitializedFs(f) ==
    IF storage_mode = "disk"
    THEN [f EXCEPT !.dir = TRUE, !.chromaDir = TRUE, !.sqlite = TRUE]
    ELSE f

\* _clean_directory(chroma_data_directory): rmtree, then makedirs.
CleanDirectory(f) ==
    [f EXCEPT !.dir = TRUE, !.chromaDir = TRUE, !.sqlite = FALSE, !.coll = <<>>]

\* add_texts(texts, metadatas, ids = "0".."n-1"): an upsert by document id.
AddTexts(coll, docs) == docs \o SubSeq(coll, Len(docs) + 1, Len(coll))

ChromaNeedsLoading ==
    IF storage_mode = "disk"
    THEN IF ~fs.chromaDir THEN TRUE ELSE ~fs.sqlite
    ELSE TRUE

ChromaLoadFaults == {"none", "init", "add"}

ChromaLoad(L, fault) ==
    /\ constructed /\ backend = "chroma"
    /\ prev' = Tag(ret)
    /\ UNCHANGED aux
    /\ everLoaded' = TRUE
    /\ UNCHANGED <<backend, storage_mode, constructed>>
    /\ IF L = <<>>
       THEN \* raise ValueError("No properties provided to load")
            /\ ret' = [NoRet EXCEPT !.op = "load", !.raised = TRUE]
            /\ UNCHANGED <<fs, memColl, vector_store, properties, clearedSince>>
       ELSE /\ properties' = PutAll(properties, L)
            /\ ret' = [NoRet EXCEPT !.op = "load", !.arg = L, !.raised = (fault # "none")]
            /\ clearedSince' = (clearedSince /\ fault # "none")
            /\ IF fault = "init"
               THEN UNCHANGED <<fs, memColl, vector_store>>
               ELSE /\ vector_store' = [open |-> TRUE, docs |-> <<>>]
                    /\ IF fault = "add"
                       THEN /\ fs' = InitializedFs(fs)
                            /\ UNCHANGED memColl
                       ELSE IF storage_mode = "disk"
                            THEN /\ fs' = [InitializedFs(fs) EXCEPT !.coll = AddTexts(fs.coll, L)]
                                 /\ UNCHANGED memColl
                            ELSE /\ memColl' = AddTexts(memColl, L)
                                 /\ UNCHANGED fs

ChromaClear(faultInit) ==
    /\ constructed /\ backend = "chroma"
    /\ prev' = Tag(ret)
    /\ UNCHANGED aux
    /\ ret' = [NoRet EXCEPT !.op = "clear", !.raised = faultInit]
    /\ properties' = {}
    /\ clearedSince' = (clearedSince \/ ~faultInit)
    /\ LET cleaned == IF storage_mode = "disk" THEN CleanDirectory(fs) ELSE fs
       IN  IF faultInit
           THEN /\ fs' = cleaned
                /\ vector_store' = NoStore
           ELSE /\ fs' = InitializedFs(cleaned)
                /\ vector_store' = [open |-> TRUE, docs |-> <<>>]
    /\ UNCHANGED <<backend, storage_mode, memColl, constructed, everLoaded>>

ChromaSearch(k, faultInit, fault) ==
    /\ constructed /\ backend = "chroma"
    /\ prev' = Tag(ret)
    /\ UNCHANGED aux
    /\ UNCHANGED <<backend, storage_mode, memColl, constructed, properties,
                   everLoaded, clearedSince>>
    /\ IF ~vector_store.open /\ faultInit
       THEN \* _initialize_store raised: return []
            /\ ret' = [NoRet EXCEPT !.op = "search", !.k = k]
            /\ UNCHANGED <<fs, vector_store>>
       ELSE /\ vector_store' = [open |-> TRUE, docs |-> <<>>]
            /\ fs' = IF vector_store.open THEN fs ELSE InitializedFs(fs)
            /\ \E r \in Rankings(Len(Coll), k) :
                 LET results == Results(Coll, r)
                     failed == fault \/ \E i \in 1..Len(results) : ~ValidProperty(results[i])
                 IN  ret' = [NoRet EXCEPT !.op = "search", !.k = k,
                                          !.matches = IF failed THEN <<>> ELSE results]

\* ------------------------------------------------- FAISSPropertyStore
FaissNeedsLoading == ~(fs.indexFile /\ fs.storeFile)

FaissLoadFaults == {"none", "from_documents", "save_index", "save_pkl"}

\* self.properties[property_id]
Lookup(props, id) == CHOOSE p \in props : p.id = id

\* the loop over results in FAISSPropertyStore.search
RECURSIVE FaissMatches(_, _)
FaissMatches(results, props) ==
    IF results = <<>> THEN <<>>
    ELSE LET rest == FaissMatches(Tail(results), props)
             id == Head(results).id
         IN  IF \E p \in props : p.id = id
             THEN <<Lookup(props, id)>> \o rest
             ELSE rest

FaissClear ==
    /\ constructed /\ backend = "faiss"
    /\ prev' = Tag(ret)
    /\ UNCHANGED aux
    /\ ret' = [NoRet EXCEPT !.op = "clear"]
    /\ vector_store' = NoStore
    /\ fs' = RmtreeAll
    /\ clearedSince' = TRUE
    /\ UNCHANGED <<backend, storage_mode, memColl, constructed, properties, everLoaded>>

FaissLoad(L, fault) ==
    /\ constructed /\ backend = "faiss"
    /\ prev' = Tag(ret)
    /\ UNCHANGED aux
    /\ everLoaded' = TRUE
    /\ UNCHANGED <<backend, storage_mode, memColl, constructed>>
    /\ properties' = PutAll(properties, L)
    /\ LET failed == (L = <<>>) \/ fault # "none"
       IN  /\ ret' = [NoRet EXCEPT !.op = "load", !.arg = L, !.raised = failed]
           /\ clearedSince' = (clearedSince /\ failed)
    /\ IF L = <<>> \/ fault = "from_documents"
       THEN \* FAISS.from_documents raised after self.clear()
            /\ vector_store' = NoStore
            /\ fs' = RmtreeAll
       ELSE /\ vector_store' = [open |-> TRUE, docs |-> L]
            /\ fs' = IF fault = "save_index" THEN RmtreeAll
                     ELSE IF fault = "save_pkl"
                          THEN [RmtreeAll EXCEPT !.indexFile = TRUE]
                          ELSE [RmtreeAll EXCEPT !.indexFile = TRUE, !.storeFile = TRUE,
                                                 !.faissDocs = L]

\* Mutant of FaissSearch: the "if not self.vector_store" guard is missing, so
\* the call on None raises.
FaissSearch_NoGuard(k, fault) ==
    /\ constructed /\ backend = "faiss"
    /\ prev' = Tag(ret)
    /\ UNCHANGED aux
    /\ UNCHANGED <<backend, storage_mode, fs, memColl, constructed, vector_store,
                   properties, everLoaded, clearedSince>>
    /\ IF ~vector_store.open \/ fault
       THEN ret' = [NoRet EXCEPT !.op = "search", !.k = k, !.raised = TRUE]
       ELSE \E r \in Rankings(Len(vector_store.docs), k) :
              ret' = [NoRet EXCEPT !.op = "search", !.k = k,
                        !.matches = FaissMatches(Results(vector_store.docs, r), properties)]

FaissSearch(k, fault) ==
    /\ constructed /\ backend = "faiss"
    /\ prev' = Tag(ret)
    /\ UNCHANGED aux
    /\ UNCHANGED <<backend, storage_mode, fs, memColl, constructed, vector_store,
                   properties, everLoaded, clearedSince>>
    /\ IF ~vector_store.open
       THEN ret' = [NoRet EXCEPT !.op = "search", !.k = k]
       ELSE IF fault
            THEN ret' = [NoRet EXCEPT !.op = "search", !.k = k, !.raised = TRUE]
            ELSE \E r \in Rankings(Len(vector_store.docs), k) :
                   ret' = [NoRet EXCEPT !.op = "search", !.k = k,
                             !.matches = FaissMatches(Results(vector_store.docs, r), properties)]

\* ------------------------------------------------------ both backends
NeedsLoading == IF backend = "chroma" THEN ChromaNeedsLoading ELSE FaissNeedsLoading

\* The documents the index of the store holds.
IndexedDocs ==
    IF backend = "chroma" THEN Coll
    ELSE IF vector_store.open THEN vector_store.docs ELSE <<>>

\* The documents a new process would find persisted.
PersistedDocs ==
    IF backend = "chroma" THEN fs.coll ELSE fs.faissDocs

CallNeedsLoading ==
    /\ constructed
    /\ prev' = Tag(ret)
    /\ UNCHANGED aux
    /\ ret' = [NoRet EXCEPT !.op = "needs_loading", !.flag = NeedsLoading]
    /\ UNCHANGED <<backend, storage_mode, fs, memColl, constructed, vector_store,
                   properties, everLoaded, clearedSince>>

\* verify_storage_directory
VerifiedFs(f) == IF storage_mode = "disk" THEN [f EXCEPT !.dir = TRUE] ELSE f

\* A new process: create_vector_store(config) on the directory the earlier
\* process left. FAISSPropertyStore.__init__ reads the persisted index when
\* both artifact files exist, and FAISS.load_local may raise.
Construct(fault) ==
    /\ prev' = Tag(ret)
    /\ UNCHANGED aux
    /\ memColl' = <<>>
    /\ properties' = {}
    /\ fs' = VerifiedFs(fs)
    /\ UNCHANGED <<backend, storage_mode, everLoaded, clearedSince>>
    /\ IF backend = "faiss" /\ fs.indexFile /\ fs.storeFile
       THEN IF fault
            THEN /\ constructed' = FALSE
                 /\ vector_store' = NoStore
                 /\ ret' = [NoRet EXCEPT !.op = "construct", !.raised = TRUE]
            ELSE /\ constructed' = TRUE
                 /\ vector_store' = [open |-> TRUE, docs |-> fs.faissDocs]
                 /\ ret' = [NoRet EXCEPT !.op = "construct"]
       ELSE /\ constructed' = TRUE
            /\ vector_store' = NoStore
            /\ ret' = [NoRet EXCEPT !.op = "construct"]

\* ------------------------------------------------------- specification
Init ==
    /\ backend \in Backends
    /\ storage_mode \in Storage
    /\ fs = VerifiedFs(EmptyFs)
    /\ memColl = <<>>
    /\ constructed = TRUE
    /\ vector_store = NoStore
    /\ properties = {}
    /\ ret = [NoRet EXCEPT !.op = "construct"]
    /\ prev = Tag(NoRet)
    /\ everLoaded = FALSE
    /\ clearedSince = FALSE
    /\ boot = NoBoot
    /\ dims = NoDims
    /\ fin = NoFn
    /\ fout = NoFn
    /\ threads = NoThreads

Next ==
    \/ \E L \in PropertyLists, fault \in ChromaLoadFaults : ChromaLoad(L, fault)
    \/ \E faultInit \in BOOLEAN : ChromaClear(faultInit)
    \/ \E k \in 0..MaxK, faultInit \in BOOLEAN, fault \in BOOLEAN : ChromaSearch(k, faultInit, fault)
    \/ \E L \in PropertyLists, fault \in FaissLoadFaults : FaissLoad(L, fault)
    \/ FaissClear
    \/ \E k \in 0..MaxK, fault \in BOOLEAN : FaissSearch(k, fault)
    \/ CallNeedsLoading
    \/ \E fault \in BOOLEAN : Construct(fault)

Spec == Init /\ [][Next]_vars

TypeOK ==
    /\ backend \in Backends
    /\ storage_mode \in Storage
    /\ constructed \in BOOLEAN
    /\ properties \subseteq Property
    /\ Len(IndexedDocs) <= MaxId


\* =========================================================== the codec
\* ChromaPropertyStore._process_metadata (encode) and the loop of
\* ChromaPropertyStore.search that rebuilds Property(**property_data) from the
\* stored metadata (decode). A Python str is the sequence of its characters,
\* a Python value is a record tagged with its type.

MaxNum == 2     \* numeric field values range over 0..MaxNum

Digits == <<"0", "1", "2", "3", "4", "5", "6", "7", "8", "9">>

PyNone == [t |-> "none"]
PyStr(chars) == [t |-> "str", v |-> chars]
PyInt(n) == [t |-> "int", v |-> n]
PyFloat(n) == [t |-> "float", v |-> n]      \* the float n.0
PyBool(b) == [t |-> "bool", v |-> b]
PyList(items) == [t |-> "list", v |-> items]
PyDict(key, chars) == [t |-> "dict", k |-> key, v |-> chars]   \* {key: chars}
PyError == [t |-> "error"]

KeyChars(key) == IF key = "es" THEN <<"e", "s">> ELSE <<"u", "r", "l">>

\* str(value)
Str(value) ==
    IF value.t = "str" THEN value.v
    ELSE IF value.t = "int" THEN <<Digits[value.v + 1]>>
    ELSE IF value.t = "float" THEN <<Digits[value.v + 1], ".", "0">>
    ELSE IF value.t = "bool"
         THEN (IF value.v THEN <<"T", "r", "u", "e">> ELSE <<"F", "a", "l", "s", "e">>)
    ELSE IF value.t = "dict"
         THEN <<"{", "'">> \o KeyChars(value.k) \o <<"'", ":", " ", "'">> \o value.v \o <<"'", "}">>
    ELSE <<"N", "o", "n", "e">>

LowerChar(c) == IF c = "T" THEN "t" ELSE IF c = "F" THEN "f" ELSE c

\* str.lower()
Lower(chars) == [i \in 1..Len(chars) |-> LowerChar(chars[i])]

\* ', '.join(map(str, items))
RECURSIVE Join(_)
Join(items) ==
    IF items = <<>> THEN <<>>
    ELSE IF Len(items) = 1 THEN Str(items[1])
    ELSE Str(items[1]) \o <<",", " ">> \o Join(Tail(items))

\* chars.split(', ')
RECURSIVE SplitFrom(_, _)
SplitFrom(chars, part) ==
    IF chars = <<>> THEN <<part>>
    ELSE IF Len(chars) >= 2 /\ chars[1] = "," /\ chars[2] = " "
         THEN <<part>> \o SplitFrom(SubSeq(chars, 3, Len(chars)), <<>>)
         ELSE SplitFrom(Tail(chars), Append(part, Head(chars)))

Split(chars) == SplitFrom(chars, <<>>)

\* str.strip()
RECURSIVE Strip(_)
Strip(chars) ==
    IF chars = <<>> THEN chars
    ELSE IF Head(chars) = " " THEN Strip(Tail(chars))
    ELSE IF chars[Len(chars)] = " " THEN Strip(SubSeq(chars, 1, Len(chars) - 1))
    ELSE chars

IsDigit(c) == \E n \in 1..Len(Digits) : Digits[n] = c
DigitValue(c) == (CHOOSE n \in 1..Len(Digits) : Digits[n] = c) - 1

\* int(chars)
ParseInt(chars) ==
    IF Len(chars) = 1 /\ IsDigit(chars[1]) THEN PyInt(DigitValue(chars[1])) ELSE PyError

\* float(chars)
ParseFloat(chars) ==
    IF Len(chars) = 1 /\ IsDigit(chars[1]) THEN PyFloat(DigitValue(chars[1]))
    ELSE IF Len(chars) = 3 /\ IsDigit(chars[1]) /\ chars[2] = "." /\ chars[3] = "0"
         THEN PyFloat(DigitValue(chars[1]))
    ELSE PyError

IntKeys == {"beds", "baths"}
FloatKeys == {"surface_area_built", "surface_area_plot", "price"}
BoolKeys == {"new_build", "pool"}
StrKeys == {"id", "date", "ref", "currency", "price_freq", "type", "town", "country",
            "property_name"}
OptionalKeys == {"province", "beds", "baths", "surface_area_built", "surface_area_plot"}
Keys == StrKeys \cup {"province", "desc", "features", "images"} \cup IntKeys
            \cup FloatKeys \cup BoolKeys

\* _process_metadata, one key: the branches in the order of the source.
\* isinstance(value, (int, float)) is true of a bool, so the bool branch after
\* it is never taken.
ProcessMetadata(key, value) ==
    IF value.t = "none"
    THEN IF key \in IntKeys THEN <<"0">>
         ELSE IF key \in FloatKeys THEN <<"0", ".", "0">>
         ELSE <<>>
    ELSE IF value.t = "list"
         THEN IF value.v # <<>> THEN Join(value.v) ELSE <<>>
    ELSE IF value.t \in {"int", "float", "bool"} THEN Str(value)
    ELSE IF value.t = "bool" THEN Lower(Str(value))
    ELSE IF value.t = "dict"
         THEN IF key = "desc" /\ value.k = "es" THEN value.v ELSE Str(value)
    ELSE Str(value)

\* The decoding loop of search, one key.
PropertyData(key, chars) ==
    IF key = "features"
    THEN IF chars # <<>>
         THEN PyList([i \in 1..Len(Split(chars)) |-> PyStr(Split(chars)[i])])
         ELSE PyList(<<>>)
    ELSE IF key = "desc" THEN PyDict("es", chars)
    ELSE IF key = "images"
         THEN IF chars # <<>>
              THEN PyList([i \in 1..Len(Split(chars)) |-> PyDict("url", Strip(Split(chars)[i]))])
              ELSE PyList(<<>>)
    ELSE IF key \in IntKeys THEN (IF chars # <<>> THEN ParseInt(chars) ELSE PyNone)
    ELSE IF key \in FloatKeys THEN (IF chars # <<>> THEN ParseFloat(chars) ELSE PyNone)
    ELSE IF chars = <<>> THEN PyNone
    ELSE IF Lower(chars) \in {<<"t", "r", "u", "e">>, <<"f", "a", "l", "s", "e">>}
         THEN PyBool(Lower(chars) = <<"t", "r", "u", "e">>)
    ELSE PyStr(chars)

\* Property(**property_data), one field: the declared type accepts the value.
FieldAccepts(key, value) ==
    IF value.t = "error" THEN FALSE
    ELSE IF value.t = "none" THEN key \in OptionalKeys
    ELSE IF key \in StrKeys \cup {"province"} THEN value.t = "str"
    ELSE IF key \in IntKeys THEN value.t = "int"
    ELSE IF key \in FloatKeys THEN value.t = "float"
    ELSE IF key \in BoolKeys THEN value.t = "bool"
    ELSE IF key = "desc" THEN value.t = "dict"
    ELSE value.t = "list"

\* The values a field of a parsed listing takes.
Chars == {<<>>, <<"a">>, <<"a", "b">>}
FieldValues(key) ==
    IF key \in StrKeys THEN {PyStr(c) : c \in Chars}
    ELSE IF key = "province" THEN {PyNone} \cup {PyStr(c) : c \in Chars}
    ELSE IF key \in IntKeys THEN {PyNone} \cup {PyInt(n) : n \in 0..MaxNum}
    ELSE IF key = "price" THEN {PyFloat(n) : n \in 0..MaxNum}
    ELSE IF key \in FloatKeys THEN {PyNone} \cup {PyFloat(n) : n \in 0..MaxNum}
    ELSE IF key \in BoolKeys THEN {PyBool(b) : b \in BOOLEAN}
    ELSE IF key = "desc" THEN {PyDict("es", c) : c \in Chars}
    ELSE IF key = "features"
         THEN {PyList(<<>>), PyList(<<PyStr(<<"a">>)>>),
               PyList(<<PyStr(<<"a">>), PyStr(<<"a", "b">>)>>)}
    ELSE {PyList(<<>>), PyList(<<PyDict("url", <<"a">>)>>),
          PyList(<<PyDict("url", <<"a">>), PyDict("url", <<"a", "b">>)>>)}

\* ---------------------------------------------------------- similarity
MaxDist == 2    \* L2 distances range over 0..MaxDist

\* Mutant of Similarity: the raw distance is reported as the score.
Similarity_RawDistance(score) == [num |-> score, den |-> 1]

\* similarity = 1 / (1 + score), as the fraction num / den
Similarity(score) == [num |-> 1, den |-> 1 + score]

\* The loop of FAISSPropertyStore.search over (doc, score) pairs.
RECURSIVE FaissScoredMatches(_, _)
FaissScoredMatches(results, props) ==
    IF results = <<>> THEN <<>>
    ELSE LET rest == FaissScoredMatches(Tail(results), props)
             hit == Head(results)
         IN  IF hit.id \in props
             THEN <<[id |-> hit.id, score |-> hit.score,
                     similarity |-> Similarity(hit.score)]>> \o rest
             ELSE rest

\* What similarity_search_with_score returns: documents with their L2
\* distance, nearest first.
ScoredResults ==
    {r \in SeqsUpTo([id : Ids, score : 0..MaxDist], MaxId) :
        /\ \A i, j \in 1..Len(r) : i # j => r[i].id # r[j].id
        /\ \A i \in 1..Len(r) - 1 : r[i].score <= r[i + 1].score}

\* ------------------------------------------- pure-function specification
ApplyProcessMetadata(key, value) ==
    /\ fin' = [fn |-> "process_metadata", key |-> key, value |-> value]
    /\ fout' = [fn |-> "process_metadata", chars |-> ProcessMetadata(key, value)]

\* encode, store, decode, validate: one field of a listing through
\* _create_documents and back through search.
ApplyRoundTrip(key, value) ==
    LET data == PropertyData(key, ProcessMetadata(key, value))
    IN  /\ fin' = [fn |-> "round_trip", key |-> key, value |-> value]
        /\ fout' = [fn |-> "round_trip", value |-> data,
                    raised |-> ~FieldAccepts(key, data)]

ApplyFaissScores(results, props) ==
    /\ fin' = [fn |-> "faiss_scores", results |-> results, props |-> props]
    /\ fout' = [fn |-> "faiss_scores", matches |-> FaissScoredMatches(results, props)]

PureInit ==
    /\ backend = "chroma"
    /\ storage_mode = "memory"
    /\ fs = EmptyFs
    /\ memColl = <<>>
    /\ constructed = FALSE
    /\ vector_store = NoStore
    /\ properties = {}
    /\ ret = NoRet
    /\ prev = Tag(NoRet)
    /\ everLoaded = FALSE
    /\ clearedSince = FALSE
    /\ boot = NoBoot
    /\ dims = NoDims
    /\ threads = NoThreads
    /\ fin = NoFn
    /\ fout = NoFn

PureNext ==
    /\ UNCHANGED <<backend, storage_mode, fs, memColl, constructed, vector_store,
                   properties, ret, prev, everLoaded, clearedSince, boot, dims, threads>>
    /\ \/ \E key \in Keys : \E value \in FieldValues(key) : ApplyProcessMetadata(key, value)
       \/ \E key \in Keys : \E value \in FieldValues(key) : ApplyRoundTrip(key, value)
       \/ \E results \in ScoredResults, props \in SUBSET Ids : ApplyFaissScores(results, props)

PureSpec == PureInit /\ [][PureNext]_vars

\* ================================================ embedding dimensions
\* PropertyVectorStore.__init__ builds the embedding model named in the
\* configuration; a later process may be configured with a model of another
\* output dimension. dims.model is the dimension of this process's model,
\* dims.index the dimension of the vectors in the index the store writes to
\* (0 when it holds none).

MaxDim == 2     \* embedding dimensions range over 1..MaxDim

\* A new process with an embedding model of the given dimension.
\* FAISS.load_local reads the persisted index whatever its dimension; the
\* in-process Chroma collection does not outlive the process.
DimConstruct(model) ==
    /\ prev' = Tag(ret)
    /\ memColl' = <<>>
    /\ properties' = {}
    /\ fs' = VerifiedFs(fs)
    /\ constructed' = TRUE
    /\ vector_store' = IF backend = "faiss" /\ fs.indexFile /\ fs.storeFile
                       THEN [open |-> TRUE, docs |-> fs.faissDocs]
                       ELSE NoStore
    /\ ret' = [NoRet EXCEPT !.op = "construct"]
    /\ dims' = [model |-> model,
                index |-> IF backend = "chroma" /\ storage_mode = "memory"
                          THEN 0 ELSE dims.index]
    /\ UNCHANGED <<backend, storage_mode, everLoaded, clearedSince, boot, fin, fout, threads>>

\* ChromaPropertyStore.load_properties: add_texts embeds with this process's
\* model and upserts into the collection "properties"; the collection rejects
\* vectors of another dimension than the ones it holds, and the except
\* clause re-raises.
DimChromaLoad(L) ==
    /\ constructed /\ backend = "chroma"
    /\ prev' = Tag(ret)
    /\ everLoaded' = TRUE
    /\ UNCHANGED <<backend, storage_mode, constructed, boot, fin, fout, threads>>
    /\ IF L = <<>>
       THEN /\ ret' = [NoRet EXCEPT !.op = "load", !.raised = TRUE]
            /\ UNCHANGED <<fs, memColl, vector_store, properties, clearedSince, dims>>
       ELSE LET rejected == dims.index # 0 /\ dims.index # dims.model
            IN  /\ properties' = PutAll(properties, L)
                /\ ret' = [NoRet EXCEPT !.op = "load", !.arg = L, !.raised = rejected]
                /\ clearedSince' = (clearedSince /\ rejected)
                /\ vector_store' = [open |-> TRUE, docs |-> <<>>]
                /\ IF rejected
                   THEN /\ fs' = InitializedFs(fs)
                        /\ UNCHANGED <<memColl, dims>>
                   ELSE /\ dims' = [dims EXCEPT !.index = dims.model]
                        /\ IF storage_mode = "disk"
                           THEN /\ fs' = [InitializedFs(fs) EXCEPT !.coll = AddTexts(fs.coll, L)]
                                /\ UNCHANGED memColl
                           ELSE /\ memColl' = AddTexts(memColl, L)
                                /\ UNCHANGED fs

\* ChromaPropertyStore.clear: DISK mode removes the database directory and
\* with it the collection; otherwise the in-process collection stays.
DimChromaClear ==
    /\ constructed /\ backend = "chroma"
    /\ prev' = Tag(ret)
    /\ ret' = [NoRet EXCEPT !.op = "clear"]
    /\ properties' = {}
    /\ clearedSince' = TRUE
    /\ fs' = InitializedFs(IF storage_mode = "disk" THEN CleanDirectory(fs) ELSE fs)
    /\ vector_store' = [open |-> TRUE, docs |-> <<>>]
    /\ dims' = [dims EXCEPT !.index = IF storage_mode = "disk" THEN 0 ELSE dims.index]
    /\ UNCHANGED <<backend, storage_mode, memColl, constructed, everLoaded,
                   boot, fin, fout, threads>>

\* FAISSPropertyStore.load_properties: self.clear() removes the persisted
\* index, FAISS.from_documents builds a new one with this process's model,
\* save_local writes it. No step compares dimensions.
DimFaissLoad(L) ==
    /\ constructed /\ backend = "faiss"
    /\ prev' = Tag(ret)
    /\ everLoaded' = TRUE
    /\ UNCHANGED <<backend, storage_mode, memColl, constructed, boot, fin, fout, threads>>
    /\ properties' = PutAll(properties, L)
    /\ ret' = [NoRet EXCEPT !.op = "load", !.arg = L, !.raised = (L = <<>>)]
    /\ clearedSince' = (clearedSince /\ L = <<>>)
    /\ IF L = <<>>
       THEN /\ vector_store' = NoStore
            /\ fs' = RmtreeAll
            /\ dims' = [dims EXCEPT !.index = 0]
       ELSE /\ vector_store' = [open |-> TRUE, docs |-> L]
            /\ fs' = [RmtreeAll EXCEPT !.indexFile = TRUE, !.storeFile = TRUE, !.faissDocs = L]
            /\ dims' = [dims EXCEPT !.index = dims.model]

\* FAISSPropertyStore.clear
DimFaissClear ==
    /\ constructed /\ backend = "faiss"
    /\ prev' = Tag(ret)
    /\ ret' = [NoRet EXCEPT !.op = "clear"]
    /\ vector_store' = NoStore
    /\ fs' = RmtreeAll
    /\ clearedSince' = TRUE
    /\ dims' = [dims EXCEPT !.index = 0]
    /\ UNCHANGED <<backend, storage_mode, memColl, constructed, properties, everLoaded,
                   boot, fin, fout, threads>>

DimInit ==
    /\ backend \in Backends
    /\ storage_mode \in Storage
    /\ fs = VerifiedFs(EmptyFs)
    /\ memColl = <<>>
    /\ constructed = TRUE
    /\ vector_store = NoStore
    /\ properties = {}
    /\ ret = [NoRet EXCEPT !.op = "construct"]
    /\ prev = Tag(NoRet)
    /\ everLoaded = FALSE
    /\ clearedSince = FALSE
    /\ boot = NoBoot
    /\ dims \in [model : 1..MaxDim, index : {0}]
    /\ fin = NoFn
    /\ fout = NoFn
    /\ threads = NoThreads

DimNext ==
    \/ \E model \in 1..MaxDim : DimConstruct(model)
    \/ \E L \in PropertyLists : DimChromaLoad(L)
    \/ DimChromaClear
    \/ \E L \in PropertyLists : DimFaissLoad(L)
    \/ DimFaissClear

DimSpec == DimInit /\ [][DimNext]_vars

\* =========================================================== bootstrap
\* app.py: main() runs initialize_vector_store once per process, then serves
\* process_message. boot records the inputs of the running process: the
\* --storage-mode argument, the STORAGE_MODE environment variable, the
\* --reload-vectors flag, and whether chroma.sqlite3 existed at start.

CmdModes == {"none", "memory", "disk"}
EnvModes == {"unset", "memory", "disk"}

\* Config.load: storage_mode = StorageMode(os.getenv("STORAGE_MODE", "memory"))
ConfigLoad(env) == IF env = "unset" THEN "memory" ELSE env

\* determine_storage_mode. A StorageMode member is truthy, so the branch on
\* config.storage_mode is taken whenever there is no command-line argument.
DetermineStorageMode(cached, cmd, cfg, dbExists) ==
    IF cached # "none" THEN cached
    ELSE IF cmd # "none" THEN cmd
    ELSE IF cfg \in Storage THEN cfg
    ELSE IF dbExists THEN "disk" ELSE "memory"

\* Mutant of ForceRemoved: the persistence directory is kept.
ForceRemoved_Keep(f, force, mode) == f

\* initialize_vector_store: shutil.rmtree(chroma_dir) when force_reload is
\* set and the mode is DISK.
ForceRemoved(f, force, mode) ==
    IF force /\ mode = "disk" /\ f.dir THEN EmptyFs ELSE f

\* Mutant of ShouldLoad: needs_loading() is not consulted.
ShouldLoad_IgnoreNeeds(mode, force, needs) == mode = "memory" \/ force

\* initialize_vector_store: the branches that call load_properties.
ShouldLoad(mode, force, needs) ==
    IF mode = "memory" THEN TRUE
    ELSE IF force THEN TRUE
    ELSE needs

\* main: run_polling is reached only when initialize_vector_store returned.
Serving ==
    \/ ret.op = "search"
    \/ ret.op \in {"load", "initialize"} /\ ~ret.raised

\* A new process, up to the call of create_vector_store: Config.load at
\* import, determine_storage_mode, config.storage_mode = effective_mode, the
\* force-reload removal.
BootStart(cmd, env, force) ==
    LET cfg == ConfigLoad(env)
        loaded == IF cfg = "disk" THEN [fs EXCEPT !.dir = TRUE] ELSE fs
        dbExists == loaded.chromaDir /\ loaded.sqlite
        mode == DetermineStorageMode("none", cmd, cfg, dbExists)
    IN  /\ prev' = Tag(ret)
        /\ ret' = [NoRet EXCEPT !.op = "start"]
        /\ boot' = [cmd |-> cmd, env |-> env, force |-> force, db |-> dbExists]
        /\ storage_mode' = mode
        /\ fs' = ForceRemoved(loaded, force, mode)
        /\ memColl' = <<>>
        /\ properties' = {}
        /\ vector_store' = NoStore
        /\ constructed' = FALSE
        /\ UNCHANGED <<backend, everLoaded, clearedSince, dims, fin, fout, threads>>

\* vector_store = create_vector_store(config)
BootCreate(fault) ==
    /\ ret.op = "start"
    /\ Construct(fault)

\* The load_properties branches of initialize_vector_store.
BootLoad(L, fault) ==
    /\ ret.op = "construct" /\ ~ret.raised
    /\ ShouldLoad(storage_mode, boot.force, NeedsLoading)
    /\ \/ fault \in ChromaLoadFaults /\ ChromaLoad(L, fault)
       \/ fault \in FaissLoadFaults /\ FaissLoad(L, fault)

\* The last branch: vector_store._initialize_store() without loading.
BootInitialize(fault) ==
    /\ ret.op = "construct" /\ ~ret.raised
    /\ ~ShouldLoad(storage_mode, boot.force, NeedsLoading)
    /\ prev' = Tag(ret)
    /\ ret' = [NoRet EXCEPT !.op = "initialize", !.raised = fault]
    /\ IF fault
       THEN UNCHANGED <<fs, vector_store>>
       ELSE IF backend = "chroma"
            THEN /\ fs' = InitializedFs(fs)
                 /\ vector_store' = [open |-> TRUE, docs |-> <<>>]
            ELSE /\ vector_store' = IF fs.indexFile /\ fs.storeFile
                                    THEN [open |-> TRUE, docs |-> fs.faissDocs]
                                    ELSE vector_store
                 /\ UNCHANGED fs
    /\ UNCHANGED <<backend, storage_mode, memColl, constructed, properties,
                   everLoaded, clearedSince, aux>>

\* process_message: vector_store.search(user_query, top_k)
BootChromaSearch(k, faultInit, fault) ==
    /\ Serving
    /\ ChromaSearch(k, faultInit, fault)

BootFaissSearch(k, fault) ==
    /\ Serving
    /\ FaissSearch(k, fault)

BootInit ==
    /\ backend \in Backends
    /\ storage_mode = "memory"
    /\ fs = EmptyFs
    /\ memColl = <<>>
    /\ constructed = FALSE
    /\ vector_store = NoStore
    /\ properties = {}
    /\ ret = NoRet
    /\ prev = Tag(NoRet)
    /\ everLoaded = FALSE
    /\ clearedSince = FALSE
    /\ boot = NoBoot
    /\ dims = NoDims
    /\ fin = NoFn
    /\ fout = NoFn
    /\ threads = NoThreads

BootNext ==
    \/ \E cmd \in CmdModes, env \in EnvModes, force \in BOOLEAN : BootStart(cmd, env, force)
    \/ \E fault \in BOOLEAN : BootCreate(fault)
    \/ \E L \in PropertyLists, fault \in ChromaLoadFaults \cup FaissLoadFaults : BootLoad(L, fault)
    \/ \E fault \in BOOLEAN : BootInitialize(fault)
    \/ \E k \in 1..MaxK, faultInit \in BOOLEAN, fault \in BOOLEAN : BootChromaSearch(k, faultInit, fault)
    \/ \E k \in 1..MaxK, fault \in BOOLEAN : BootFaissSearch(k, fault)

BootSpec == BootInit /\ [][BootNext]_vars

\* ================================================== concurrent searches
\* Two callers run search on one loaded store, each call split at its reads
\* of the shared store: the test of self.vector_store, the backend query, and
\* the loop that builds the matches. ret stays the record of the load that
\* filled the store.

Threads == {"t1", "t2"}

Idle == [pc |-> "idle", k |-> 0, r |-> <<>>, results |-> <<>>, matches |-> <<>>]

\* if self.vector_store is None: self._initialize_store()
ChromaSearchCheck(t, k) ==
    /\ backend = "chroma"
    /\ threads[t].pc \in {"idle", "done"}
    /\ threads' = [threads EXCEPT ![t] = [Idle EXCEPT !.pc = "query", !.k = k]]
    /\ vector_store' = [open |-> TRUE, docs |-> <<>>]
    /\ fs' = IF vector_store.open THEN fs ELSE InitializedFs(fs)
    /\ UNCHANGED <<backend, storage_mode, memColl, constructed, properties, ret, prev,
                   everLoaded, clearedSince, boot, dims, fin, fout>>

\* results = self.vector_store.similarity_search_with_relevance_scores(query, k=top_k)
ChromaSearchQuery(t) ==
    /\ backend = "chroma"
    /\ threads[t].pc = "query"
    /\ \E r \in Rankings(Len(Coll), threads[t].k) :
         threads' = [threads EXCEPT ![t].pc = "collect", ![t].r = r,
                                    ![t].results = Results(Coll, r)]
    /\ UNCHANGED <<backend, storage_mode, fs, memColl, constructed, vector_store, properties,
                   ret, prev, everLoaded, clearedSince, boot, dims, fin, fout>>

\* The decoding loop; a listing that does not validate sends the call to the
\* except clause, which returns [].
ChromaSearchCollect(t) ==
    /\ backend = "chroma"
    /\ threads[t].pc = "collect"
    /\ LET results == threads[t].results
           failed == \E i \in 1..Len(results) : ~ValidProperty(results[i])
       IN  threads' = [threads EXCEPT ![t].pc = "done",
                                      ![t].matches = IF failed THEN <<>> ELSE results]
    /\ UNCHANGED <<backend, storage_mode, fs, memColl, constructed, vector_store, properties,
                   ret, prev, everLoaded, clearedSince, boot, dims, fin, fout>>

\* if not self.vector_store: return []
FaissSearchCheck(t, k) ==
    /\ backend = "faiss"
    /\ threads[t].pc \in {"idle", "done"}
    /\ threads' = [threads EXCEPT ![t] =
                     [Idle EXCEPT !.pc = IF vector_store.open THEN "query" ELSE "done",
                                  !.k = k]]
    /\ UNCHANGED <<backend, storage_mode, fs, memColl, constructed, vector_store, properties,
                   ret, prev, everLoaded, clearedSince, boot, dims, fin, fout>>

\* results = self.vector_store.similarity_search_with_score(query, k=top_k)
FaissSearchQuery(t) ==
    /\ backend = "faiss"
    /\ threads[t].pc = "query"
    /\ \E r \in Rankings(Len(vector_store.docs), threads[t].k) :
         threads' = [threads EXCEPT ![t].pc = "collect", ![t].r = r,
                                    ![t].results = Results(vector_store.docs, r)]
    /\ UNCHANGED <<backend, storage_mode, fs, memColl, constructed, vector_store, properties,
                   ret, prev, everLoaded, clearedSince, boot, dims, fin, fout>>

\* Mutant of FaissSearchCollect: the loop takes each listing out of
\* self.properties as it reports it.
FaissSearchCollect_Pop(t) ==
    /\ backend = "faiss"
    /\ threads[t].pc = "collect"
    /\ threads' = [threads EXCEPT ![t].pc = "done",
                                  ![t].matches = FaissMatches(threads[t].results, properties)]
    /\ properties' = {p \in properties :
                        \A i \in 1..Len(threads[t].results) : threads[t].results[i].id # p.id}
    /\ UNCHANGED <<backend, storage_mode, fs, memColl, constructed, vector_store,
                   ret, prev, everLoaded, clearedSince, boot, dims, fin, fout>>

\* The loop over results: one match per document whose id is in
\* self.properties.
FaissSearchCollect(t) ==
    /\ backend = "faiss"
    /\ threads[t].pc = "collect"
    /\ threads' = [threads EXCEPT ![t].pc = "done",
                                  ![t].matches = FaissMatches(threads[t].results, properties)]
    /\ UNCHANGED <<backend, storage_mode, fs, memColl, constructed, vector_store, properties,
                   ret, prev, everLoaded, clearedSince, boot, dims, fin, fout>>

\* The store right after a successful load_properties(L) on a new instance.
ConcInit ==
    /\ backend \in Backends
    /\ storage_mode \in Storage
    /\ constructed = TRUE
    /\ \E L \in PropertyLists \ {<<>>} :
         /\ ret = [NoRet EXCEPT !.op = "load", !.arg = L]
         /\ properties = PutAll({}, L)
         /\ vector_store = [open |-> TRUE, docs |-> IF backend = "faiss" THEN L ELSE <<>>]
         /\ memColl = IF backend = "chroma" /\ storage_mode = "memory" THEN L ELSE <<>>
         /\ fs = IF backend = "faiss"
                 THEN [RmtreeAll EXCEPT !.indexFile = TRUE, !.storeFile = TRUE, !.faissDocs = L]
                 ELSE IF storage_mode = "disk"
                      THEN [InitializedFs(EmptyFs) EXCEPT !.coll = L]
                      ELSE EmptyFs
    /\ prev = Tag([NoRet EXCEPT !.op = "construct"])
    /\ everLoaded = TRUE
    /\ clearedSince = FALSE
    /\ boot = NoBoot
    /\ dims = NoDims
    /\ fin = NoFn
    /\ fout = NoFn
    /\ threads = [t \in Threads |-> Idle]

ConcNext ==
    \/ \E t \in Threads, k \in 0..MaxK : ChromaSearchCheck(t, k)
    \/ \E t \in Threads : ChromaSearchQuery(t)
    \/ \E t \in Threads : ChromaSearchCollect(t)
    \/ \E t \in Threads, k \in 0..MaxK : FaissSearchCheck(t, k)
    \/ \E t \in Threads : FaissSearchQuery(t)
    \/ \E t \in Threads : FaissSearchCollect(t)

ConcSpec == ConcInit /\ [][ConcNext]_vars

\* ================================================================ claims

\* C1: a successful load(L) of a non-empty L, followed immediately by
\* needs_loading() on the same instance, returns false (either backend,
\* either storage mode).
C1_LoadThenNeedsLoadingFalse ==
    (ret.op = "needs_loading" /\ prev = "load_ok") => ret.flag = FALSE

\* C2: load(L), then clear(), then needs_loading() returns true: right after
\* a clear() that follows a load, the store reports that it needs loading.
C2_LoadClearNeedsLoadingTrue ==
    (ret.op = "clear" /\ ~ret.raised /\ prev = "load_ok") => NeedsLoading

\* C3: after load(L1) and then load(L2) both succeed, the index holds exactly
\* the documents of L2: the same listings, and |L2| of them.
C3_ReloadReplacesContent ==
    (ret.op = "load" /\ ~ret.raised /\ prev = "load_ok")
        => /\ Range(IndexedDocs) = Range(ret.arg)
           /\ Len(IndexedDocs) = Len(ret.arg)

\* C4: load([]) fails, does not turn a store that needed loading into one
\* that reports itself loaded, and does not discard the content loaded before.
C4_EmptyLoadRejectedWithoutEffect ==
    [][(ret'.op = "load" /\ ret'.arg = <<>>)
           => /\ ret'.raised
              /\ (NeedsLoading => NeedsLoading')
              /\ IndexedDocs' = IndexedDocs]_vars

\* C5: search never raises to its caller: a backend fault during search is
\* swallowed and the empty list is returned.
C5_SearchNeverRaises ==
    ret.op = "search" => ~ret.raised

\* C6: in durable mode a store constructed on a directory holding no
\* artifact reports needs_loading() = true, and a new instance constructed
\* right after a successful load reports needs_loading() = false with no
\* load call of its own.
ArtifactFree(f) == f = [EmptyFs EXCEPT !.dir = f.dir]

C7_FailedLoadObservable ==
    [][(ret'.op = "load" /\ ret'.raised /\ NeedsLoading)
           => (NeedsLoading' \/ IndexedDocs' # <<>>)]_vars

\* C8: search(q, top_k = k) returns at most k matches.
C8_AtMostKMatches ==
    ret.op = "search" => Len(ret.matches) <= ret.k

C8_Witness ==
    ret.op = "search" /\ ret.k > 0 /\ Len(ret.matches) = ret.k /\ Len(IndexedDocs) > ret.k

\* C9: search on a store on which load has never been called returns the
\* empty list and raises no error.
C9_SearchBeforeLoadEmpty ==
    (ret.op = "search" /\ ~everLoaded) => (ret.matches = <<>> /\ ~ret.raised)

C9_Witness ==
    ret.op = "search" /\ ~everLoaded /\ ret.matches = <<>> /\ ~ret.raised

\* C10: clear() discards all content: after clear() has returned, every
\* search returns the empty list until the next successful load.
C10_SearchEmptyAfterClear ==
    (ret.op = "search" /\ clearedSince) => ret.matches = <<>>


\* C11: clear() is idempotent: a clear() that returns right after a clear()
\* that returned leaves the index handle, the id -> Property map and the
\* persisted directory as the first clear() left them; and clear() on a
\* store in which nothing was ever loaded returns too.
C11_ClearIdempotent ==
    [][(ret.op = "clear" /\ ~ret.raised /\ ret'.op = "clear" /\ ~ret'.raised)
           => /\ vector_store' = vector_store
              /\ properties' = properties
              /\ fs' = fs
              /\ memColl' = memColl]_vars

C11_Witness ==
    /\ ret.op = "clear" /\ ~ret.raised /\ prev = "clear_ok"
    /\ ~everLoaded /\ IndexedDocs = <<>>


\* C12: within one result list scores are non-increasing, and the flat-index
\* similarity 1 / (1 + distance) lies in (0, 1] and is strictly decreasing in
\* the distance.
FracLeq(a, b) == a.num * b.den <= b.num * a.den
FracLess(a, b) == a.num * b.den < b.num * a.den

C12_ScoresNonIncreasing ==
    fout.fn = "faiss_scores" =>
        LET m == fout.matches
        IN  /\ \A i \in 1..Len(m) - 1 : FracLeq(m[i + 1].similarity, m[i].similarity)
            /\ \A i \in 1..Len(m) :
                 /\ m[i].similarity.den > 0
                 /\ m[i].similarity.num > 0
                 /\ m[i].similarity.num <= m[i].similarity.den
            /\ \A i, j \in 1..Len(m) :
                 m[i].score < m[j].score => FracLess(m[j].similarity, m[i].similarity)

C12_Witness ==
    /\ fout.fn = "faiss_scores" /\ Len(fout.matches) >= 2
    /\ fout.matches[1].score < fout.matches[2].score

\* C14: decoding the encoded attributes of a listing reproduces each field:
\* exactly, or as the zero sentinel where an optional numeric field was absent.
C14_Expected(key, value) ==
    IF value.t = "none" /\ key \in IntKeys THEN PyInt(0)
    ELSE IF value.t = "none" /\ key \in FloatKeys THEN PyFloat(0)
    ELSE value

C14_CodecRoundTrip ==
    fout.fn = "round_trip" =>
        /\ ~fout.raised
        /\ fout.value = C14_Expected(fin.key, fin.value)

\* C15: encode maps every boolean field to the lowercase string "true" or
\* "false".
C15_BooleansLowercase ==
    (fout.fn = "process_metadata" /\ fin.value.t = "bool") =>
        fout.chars = (IF fin.value.v THEN <<"t", "r", "u", "e">>
                                      ELSE <<"f", "a", "l", "s", "e">>)

\* C13: a load made while the persisted index holds vectors of another
\* dimension than the current embedding model produces fails with an error.
C13_DimensionMismatchRejected ==
    [][(ret'.op = "load" /\ dims.index # 0 /\ dims.index # dims.model)
           => ret'.raised]_vars

\* C16: the effective storage mode is the command-line override when given,
\* else the environment value when set, else disk exactly when the database
\* artifact already exists.
C16_Expected ==
    IF boot.cmd # "none" THEN boot.cmd
    ELSE IF boot.env # "unset" THEN boot.env
    ELSE IF boot.db THEN "disk" ELSE "memory"

C16_ModePrecedence == ret.op = "start" => storage_mode = C16_Expected

\* C17: with the force-reload flag set bootstrap calls load whatever
\* needs_loading() returns, in both modes, and after a successful load the
\* index holds exactly the listings just parsed.
C17_ForceReloadReplaces ==
    [][(ret.op = "construct" /\ ~ret.raised /\ boot.force /\ ret'.op # "start")
           => /\ ret'.op = "load"
              /\ ~ret'.raised => IndexedDocs' = ret'.arg]_vars

C17_Witness ==
    /\ ret.op = "load" /\ ~ret.raised /\ prev = "other"
    /\ boot.force /\ storage_mode = "disk" /\ boot.db
    /\ Len(ret.arg) = 1 /\ IndexedDocs = ret.arg

\* C20: bootstrap calls load exactly when the mode is memory, the force flag
\* is set or needs_loading() is true, and otherwise reopens the index; after
\* a failed load the process serves nothing.
C20_LoadIffNeeded ==
    [][/\ (ret.op = "construct" /\ ~ret.raised /\ ret'.op # "start")
            => /\ ret'.op \in {"load", "initialize"}
               /\ ret'.op = "load"
                    <=> (storage_mode = "memory" \/ boot.force \/ NeedsLoading)
       /\ (ret.op = "load" /\ ret.raised) => ret'.op = "start"]_vars

C20_Witness ==
    /\ ret.op = "initialize" /\ ~ret.raised
    /\ storage_mode = "disk" /\ ~boot.force /\ PersistedDocs # <<>>

\* C18: on a store configured for memory mode no load, clear or search call
\* changes anything under the persistence path.
C18_MemoryModeTouchesNoFile ==
    [][(storage_mode = "memory" /\ ret'.op \in {"load", "clear", "search"})
           => fs' = fs]_vars

\* C19: on a loaded store, in every interleaving of two search calls each
\* call returns what it returns when run alone on the loaded listings, and
\* no step changes the index handle, the id-to-listing map or the persisted
\* artifacts.
C19_Alone(t) ==
    LET results == Results(ret.arg, threads[t].r)
    IN  IF backend = "chroma"
        THEN IF \E i \in 1..Len(results) : ~ValidProperty(results[i]) THEN <<>> ELSE results
        ELSE FaissMatches(results, Range(ret.arg))

C19_ConcurrentSearchesSafe ==
    /\ [](\A t \in Threads : threads[t].pc = "done" => threads[t].matches = C19_Alone(t))
    /\ [][UNCHANGED <<vector_store, properties, fs, memColl>>]_vars

C19_Witness ==
    /\ threads["t1"].pc = "done" /\ Len(threads["t1"].matches) = 2
    /\ threads["t2"].pc = "collect" /\ threads["t2"].r # threads["t1"].r

C22_SearchKeepsLifecycle ==
    [][(constructed /\ ret'.op = "search")
           => /\ NeedsLoading' = NeedsLoading
              /\ fs' = fs]_vars

\* C23: after every load and clear call that returned, the ids of the
\* id-to-listing map are exactly the ids of the documents in the index.
C23_MapAgreesWithIndex ==
    (constructed /\ ret.op \in {"load", "clear"} /\ ~ret.raised)
        => {p.id : p \in properties} = {d.id : d \in Range(IndexedDocs)}

\* C24: decoding the stored attributes of any listing load accepted yields a
\* valid listing, so no field of it makes Property(**property_data) raise.
C24_DecodedListingValid ==
    fout.fn = "round_trip" => ~fout.raised

====
